---- MODULE Spec2Model ----
(***************************************************************************)
(* Model of the Acoriss payment-gateway Node SDK.                          *)
(*                                                                         *)
(* Two variants of PaymentGatewayClient are in the repository:             *)
(*   "client"  - src/src/client.ts      (createSession only, `??`/`!sig`)  *)
(*   "part000" - src/unnamed/part_000   (createSession + getPayment,       *)
(*                                       truthiness tests, X-TIMESTAMP)    *)
(*                                                                         *)
(* A JavaScript string is a sequence of tokens (each token a piece of the  *)
(* text); the empty string is << >> and concatenation is \o.  An optional  *)
(* value (undefined or a value) is a record [some, v].                     *)
(*                                                                         *)
(* HMAC-SHA256 is modelled symbolically, as an injective term over         *)
(* (secret, input) that is never the empty string: the digest is 64        *)
(* hexadecimal characters whatever the input.                              *)
(***************************************************************************)
EXTENDS Integers, Sequences, FiniteSets, TLC

VARIABLES variant, config, client, calls, apiError

vars == <<variant, config, client, calls, apiError>>

\* ------------------------------------------------------------------ bounds
\* number of invocations of createSession/getPayment on the client
MaxCalls == 1

CallIds == 1..MaxCalls

\* ------------------------------------------------------- optional values
None == [some |-> FALSE, v |-> <<>>]

Some(x) == [some |-> TRUE, v |-> x]

NoneNum == [some |-> FALSE, v |-> 0]

\* JavaScript truthiness of an optional string: undefined and "" are falsy
Truthy(o) == o.some /\ o.v # <<>>

\* ------------------------------------------------------------ input sets
ApiKeys == { <<"test-api-key">>, <<"invalid-key">> }

ApiSecrets == { None, Some(<<>>), Some(<<"test-api-secret">>) }

Environments == { None, Some(<<"sandbox">>), Some(<<"live">>) }

BaseURLOptions == { None, Some(<<"https://custom.api.com">>) }

\* 0 is a number a caller can pass: axios reads a timeout of 0 as no timeout
TimeoutOptions == { NoneNum, [some |-> TRUE, v |-> 5000], [some |-> TRUE, v |-> 0] }

\* custom signers a caller can pass: one whose result depends on its input,
\* one that returns "", one that throws
CustomSigners == { "tagging", "empty", "throwing" }

SignerOptions == { [some |-> (f # "none"), v |-> f] : f \in CustomSigners \cup {"none"} }

Overrides == { None, Some(<<>>), Some(<<"override-signature">>) }

PaymentIds == { <<"pay_123">>, <<"pay/4 5">> }

\* clock readings of Date.now(), in milliseconds
NowValues == { 1999, 2000 }

\* a JSON value of a payload: number, string, undefined, or customer object
JNum(n) == [t |-> "num", n |-> n, s |-> <<>>, o |-> <<>>]

JStr(s) == [t |-> "str", n |-> 0, s |-> s, o |-> <<>>]

JUndef == [t |-> "undef", n |-> 0, s |-> <<>>, o |-> <<>>]

\* an object one level down: o is a sequence of <<key, string-or-undefined>>
JObj(o) == [t |-> "obj", n |-> 0, s |-> <<>>, o |-> o]

Payloads ==
  { << <<"amount", JNum(5000)>>, <<"currency", JStr(<<"USD">>)>>,
       <<"customer", JObj(<< <<"email", Some(<<"test@example.com">>)>>,
                             <<"name", Some(<<"Test User">>)>> >>)>> >>,
    << <<"amount", JNum(100)>>, <<"currency", JStr(<<"CDF">>)>>,
       <<"customer", JObj(<< <<"email", Some(<<"john@example.com">>)>>,
                             <<"name", Some(<<"John Doe">>)>>,
                             <<"phone", None>> >>)>>,
       <<"description", JUndef>>,
       <<"transactionId", JStr(<<"order_1234">>)>> >> }

\* ------------------------------------------------------- JSON.stringify
Quote(s) == <<"\"">> \o s \o <<"\"">>

RECURSIVE JoinComma(_)
JoinComma(ms) ==
  IF ms = <<>> THEN <<>>
  ELSE IF Len(ms) = 1 THEN ms[1]
  ELSE ms[1] \o <<",">> \o JoinComma(Tail(ms))

IsSome(f) == f[2].some

IsDefined(f) == f[2].t # "undef"

\* the nested customer object: properties whose value is undefined are left out
StringifyObject(o) ==
  LET present == SelectSeq(o, IsSome)
      members == [i \in 1..Len(present) |->
                    Quote(<<present[i][1]>>) \o <<":">> \o Quote(present[i][2].v)]
  IN  <<"{">> \o JoinComma(members) \o <<"}">>

StringifyValue(j) ==
  CASE j.t = "num" -> <<ToString(j.n)>>
    [] j.t = "str" -> Quote(j.s)
    [] j.t = "obj" -> StringifyObject(j.o)

\* JSON.stringify(payload): own properties in insertion order, undefined ones
\* omitted, no white space
JSONstringify(payload) ==
  LET present == SelectSeq(payload, IsDefined)
      members == [i \in 1..Len(present) |->
                    Quote(<<present[i][1]>>) \o <<":">> \o StringifyValue(present[i][2])]
  IN  <<"{">> \o JoinComma(members) \o <<"}">>

\* ------------------------------------------------------------- signers
BASE_URLS(environment) ==
  IF environment = <<"sandbox">>
    THEN <<"https://sandbox.checkout.rdcard.net/api/v1">>
    ELSE <<"https://checkout.rdcard.net/api/v1">>

NoSigner == [kind |-> "none", secret |-> <<>>, fn |-> "none"]

HmacSha256Signer(secret) == [kind |-> "hmac", secret |-> secret, fn |-> "none"]

CustomSigner(f) == [kind |-> "custom", secret |-> <<>>, fn |-> f]

\* node's crypto.createHmac(algorithm, key).update(data, inputEncoding)
\* .digest(outputEncoding), as a symbolic term: injective in its arguments
\* and never empty
createHmac(algorithm, key, data, inputEncoding, outputEncoding) ==
  <<outputEncoding, "(hmac-", algorithm, "[key=">> \o key
     \o <<"][", inputEncoding, ":">> \o data \o <<"])">>

\* mutant: the signer of release 0.1.2, which signed the secret itself
HmacSha256Signer_sign_signsSecret(secret, body) ==
  createHmac("sha256", secret, secret, "utf8", "hex")

\* crypto.createHmac('sha256', this.secret).update(body, 'utf8').digest('hex')
HmacSha256Signer_sign(secret, body) ==
  createHmac("sha256", secret, body, "utf8", "hex")

\* what a caller-supplied signer does with its input
CustomSigner_sign(f, body) ==
  CASE f = "tagging"  -> [threw |-> FALSE, value |-> <<"custom[">> \o body \o <<"]">>]
    [] f = "empty"    -> [threw |-> FALSE, value |-> <<>>]
    [] f = "throwing" -> [threw |-> TRUE,  value |-> <<"signer failed">>]

\* this.signer.sign(input)
Signer_sign(signer, input) ==
  IF signer.kind = "hmac"
    THEN [threw |-> FALSE, value |-> HmacSha256Signer_sign(signer.secret, input)]
    ELSE CustomSigner_sign(signer.fn, input)

\* -------------------------------------------------------- construction
DefaultSecret == Some(<<"test-api-secret">>)

NoCustomSigner == [some |-> FALSE, v |-> "none"]

DefaultKey == <<"test-api-key">>

\* the configurations a client is built from: the signing options in every
\* combination, the URL options in every combination, the timeout options
\* and the api keys, each group under the defaults of the others
Configs ==
  [apiKey : {DefaultKey}, apiSecret : ApiSecrets, environment : {None},
   baseURL : {None}, signer : SignerOptions, timeoutMs : {NoneNum}]
  \cup
  [apiKey : {DefaultKey}, apiSecret : {DefaultSecret}, environment : Environments,
   baseURL : BaseURLOptions, signer : {NoCustomSigner}, timeoutMs : {NoneNum}]
  \cup
  [apiKey : {DefaultKey}, apiSecret : {DefaultSecret}, environment : {None},
   baseURL : {None}, signer : {NoCustomSigner}, timeoutMs : TimeoutOptions]
  \cup
  [apiKey : ApiKeys, apiSecret : {DefaultSecret}, environment : {None},
   baseURL : {None}, signer : {NoCustomSigner}, timeoutMs : {NoneNum}]

\* mutant: the environment's URL is preferred to the explicit baseURL
ResolveBaseURL_environmentFirst(cfg) ==
  IF cfg.environment.some THEN BASE_URLS(cfg.environment.v)
  ELSE IF cfg.baseURL.some THEN cfg.baseURL.v
  ELSE BASE_URLS(<<"sandbox">>)

\* config.baseURL ?? BASE_URLS[config.environment ?? 'sandbox']
ResolveBaseURL(cfg) ==
  LET environment == IF cfg.environment.some THEN cfg.environment.v ELSE <<"sandbox">>
  IN  IF cfg.baseURL.some THEN cfg.baseURL.v ELSE BASE_URLS(environment)

\* mutant: an apiSecret is preferred to the explicit signer
ResolveSigner_secretFirst(cfg) ==
  IF Truthy(cfg.apiSecret) THEN HmacSha256Signer(cfg.apiSecret.v)
  ELSE IF cfg.signer.some THEN CustomSigner(cfg.signer.v)
  ELSE NoSigner

\* mutant: any apiSecret that is a string makes a signer, the empty one included
ResolveSigner_anySecret(cfg) ==
  IF cfg.signer.some THEN CustomSigner(cfg.signer.v)
  ELSE IF cfg.apiSecret.some THEN HmacSha256Signer(cfg.apiSecret.v)
  ELSE NoSigner

\* config.signer ?? (config.apiSecret ? new HmacSha256Signer(config.apiSecret) : undefined)
ResolveSigner(cfg) ==
  IF cfg.signer.some THEN CustomSigner(cfg.signer.v)
  ELSE IF Truthy(cfg.apiSecret) THEN HmacSha256Signer(cfg.apiSecret.v)
  ELSE NoSigner

\* mutant: the default of 15000 is not applied
ResolveTimeout_noDefault(cfg) == cfg.timeoutMs.v

\* config.timeoutMs ?? 15000
ResolveTimeout(cfg) == IF cfg.timeoutMs.some THEN cfg.timeoutMs.v ELSE 15000

\* new PaymentGatewayClient(config): the fields of the client and of its
\* axios instance
constructor(cfg) ==
  [apiKey      |-> cfg.apiKey,
   signer      |-> ResolveSigner(cfg),
   baseURL     |-> ResolveBaseURL(cfg),
   timeout     |-> ResolveTimeout(cfg),
   contentType |-> <<"application/json">>]

\* ------------------------------------------------------------- errors
NullBody == [type |-> "null", message |-> None, fields |-> <<>>]

NoneData == [some |-> FALSE, v |-> NullBody]

NoSignatureMessage ==
  <<"No signature available. Provide apiSecret at client init, a custom signer, or pass signatureOverride.">>

\* new Error(message)
Error(message) ==
  [name |-> "Error", message |-> message,
   status |-> NoneNum, data |-> NoneData, headers |-> None]

\* mutant: this.name is left as inherited from Error
APIError_unnamed(message, opts) ==
  [name |-> "Error", message |-> message,
   status |-> opts.status, data |-> opts.data, headers |-> opts.headers]

\* new APIError(message, opts)
APIError(message, opts) ==
  [name |-> "APIError", message |-> message,
   status |-> opts.status, data |-> opts.data, headers |-> opts.headers]

\* the options object of an APIError with nothing given: {}
NoOpts == [status |-> NoneNum, data |-> NoneData, headers |-> None]

\* no APIError is being built on its own
NoAPIError == [message |-> <<>>, opts |-> [some |-> FALSE, v |-> NoOpts], built |-> <<>>]

\* ---------------------------------------------------------- transport
\* response bodies the gateway can send
SessionBody == [type |-> "object", message |-> None,
                fields |-> <<"id:pay_123,amount:5000,currency:USD,checkoutUrl,customer,createdAt">>]

PaymentBody == [type |-> "object", message |-> None,
                fields |-> <<"id:pay_123,amount:5000,currency:USD,expired:false,services,status:P">>]

InvalidRequestBody == [type |-> "object", message |-> Some(<<"Invalid request">>),
                       fields |-> <<"message,code:INVALID_REQUEST">>]

NotFoundBody == [type |-> "object", message |-> None, fields |-> <<"code:NOT_FOUND">>]

EmptyMessageBody == [type |-> "object", message |-> Some(<<>>), fields |-> <<"message">>]

ResponseHeaders == Some(<<"content-type: application/json">>)

\* the promise of http.post / http.get resolves with a response
Resolve(status, data) ==
  [kind |-> "resolve", hasResponse |-> TRUE, status |-> status, data |-> data,
   headers |-> ResponseHeaders, message |-> <<>>]

\* axios rejects a response whose status is not 2xx with an AxiosError
RejectStatus(status, data) ==
  [kind |-> "axiosError", hasResponse |-> TRUE, status |-> status, data |-> data,
   headers |-> ResponseHeaders,
   message |-> <<"Request failed with status code ", ToString(status)>>]

\* an AxiosError without response: DNS, connection refused, timeout
RejectNoResponse(message) ==
  [kind |-> "axiosError", hasResponse |-> FALSE, status |-> 0, data |-> NullBody,
   headers |-> None, message |-> message]

\* an error that is not an AxiosError
RejectOther(message) ==
  [kind |-> "otherError", hasResponse |-> FALSE, status |-> 0, data |-> NullBody,
   headers |-> None, message |-> message]

TimeoutMessage(timeout) == <<"timeout of ", ToString(timeout), "ms exceeded">>

\* the timer axios arms for a request whose timeout is not 0 went off
TimedOut(timeout) == RejectNoResponse(TimeoutMessage(timeout))

\* everything the transport can answer to a request of this operation sent
\* with this timeout
Outcomes(op, timeout) ==
  { Resolve(200, IF op = "getPayment" THEN PaymentBody ELSE SessionBody),
    RejectStatus(400, InvalidRequestBody), RejectStatus(404, NotFoundBody),
    RejectStatus(500, EmptyMessageBody),
    RejectNoResponse(<<"Network Error">>), RejectNoResponse(<<>>),
    RejectOther(<<"unexpected">>) }
  \cup (IF timeout > 0 THEN { TimedOut(timeout) } ELSE {})

\* --------------------------------------------- choosing the signature
\* result of the signature step of a call: kind is "sig" (signature holds the
\* value to send), "nosig" (the missing-signature error is thrown) or "threw"
\* (the signer threw, signature holds its error text); signed lists the
\* inputs handed to signer.sign
Chosen(kind, signature, signed) ==
  [kind |-> kind, signature |-> signature, signed |-> signed]

\* mutant: || in place of ??, so an empty override falls through to the signer
SelectSignature_client_orSigner(override, signer, rawBody) ==
  LET invoked == ~Truthy(override) /\ signer.kind # "none"
      r       == Signer_sign(signer, rawBody)
      signed  == IF invoked THEN <<rawBody>> ELSE <<>>
      signature == IF Truthy(override) THEN override
                   ELSE IF signer.kind # "none" THEN Some(r.value)
                   ELSE override
  IN  IF invoked /\ r.threw THEN Chosen("threw", r.value, signed)
      ELSE IF ~Truthy(signature) THEN Chosen("nosig", <<>>, signed)
      ELSE Chosen("sig", signature.v, signed)

\* src/src/client.ts:
\*   const signature = opts?.signatureOverride ?? this.signer?.sign(rawBody);
\*   if (!signature) throw new Error('No signature available...')
SelectSignature_client(override, signer, rawBody) ==
  LET invoked == ~override.some /\ signer.kind # "none"
      r       == Signer_sign(signer, rawBody)
      signed  == IF invoked THEN <<rawBody>> ELSE <<>>
      \* the value of  override ?? signer?.sign(rawBody)
      signature == IF override.some THEN override
                   ELSE IF signer.kind # "none" THEN Some(r.value)
                   ELSE None
  IN  IF invoked /\ r.threw THEN Chosen("threw", r.value, signed)
      ELSE IF ~Truthy(signature) THEN Chosen("nosig", <<>>, signed)
      ELSE Chosen("sig", signature.v, signed)

\* mutant: the configured signer is preferred to the override
SelectSignature_part000_signerFirst(override, signer, input) ==
  IF signer.kind # "none"
    THEN LET r == Signer_sign(signer, input)
         IN  IF r.threw THEN Chosen("threw", r.value, <<input>>)
             ELSE Chosen("sig", r.value, <<input>>)
  ELSE IF Truthy(override) THEN Chosen("sig", override.v, <<>>)
  ELSE Chosen("nosig", <<>>, <<>>)

\* mutant: without signer and override the request goes out unsigned
SelectSignature_part000_unsigned(override, signer, input) ==
  IF Truthy(override) THEN Chosen("sig", override.v, <<>>)
  ELSE IF signer.kind # "none"
    THEN LET r == Signer_sign(signer, input)
         IN  IF r.threw THEN Chosen("threw", r.value, <<input>>)
             ELSE Chosen("sig", r.value, <<input>>)
  ELSE Chosen("sig", <<>>, <<>>)

\* mutant: any override that is a string is used, the empty one included
SelectSignature_part000_anyOverride(override, signer, input) ==
  IF override.some THEN Chosen("sig", override.v, <<>>)
  ELSE IF signer.kind # "none"
    THEN LET r == Signer_sign(signer, input)
         IN  IF r.threw THEN Chosen("threw", r.value, <<input>>)
             ELSE Chosen("sig", r.value, <<input>>)
  ELSE Chosen("nosig", <<>>, <<>>)

\* mutant: the signer's result is tested as in src/src/client.ts
SelectSignature_part000_guarded(override, signer, input) ==
  IF Truthy(override) THEN Chosen("sig", override.v, <<>>)
  ELSE IF signer.kind # "none"
    THEN LET r == Signer_sign(signer, input)
         IN  IF r.threw THEN Chosen("threw", r.value, <<input>>)
             ELSE IF r.value = <<>> THEN Chosen("nosig", <<>>, <<input>>)
             ELSE Chosen("sig", r.value, <<input>>)
  ELSE Chosen("nosig", <<>>, <<>>)

\* src/unnamed/part_000, in createSession and in getPayment:
\*   if (opts?.signatureOverride) signature = opts.signatureOverride;
\*   else if (this.signer) signature = this.signer.sign(input);
\*   else throw new Error('No signature available...')
SelectSignature_part000(override, signer, input) ==
  IF Truthy(override) THEN Chosen("sig", override.v, <<>>)
  ELSE IF signer.kind # "none"
    THEN LET r == Signer_sign(signer, input)
         IN  IF r.threw THEN Chosen("threw", r.value, <<input>>)
             ELSE Chosen("sig", r.value, <<input>>)
  ELSE Chosen("nosig", <<>>, <<>>)

\* mutant: the signer's error is wrapped in an APIError
SignatureFailure_wrapped(sel) ==
  IF sel.kind = "threw"
    THEN APIError(sel.signature, NoOpts)
    ELSE Error(NoSignatureMessage)

\* the error a call fails with when no request is made
SignatureFailure(sel) ==
  IF sel.kind = "threw"
    THEN [name |-> "SignerError", message |-> sel.signature,
          status |-> NoneNum, data |-> NoneData, headers |-> None]
    ELSE Error(NoSignatureMessage)

\* mutant: the clock is rounded to the nearest second
Timestamp_rounded(nowMs) == <<ToString((nowMs + 500) \div 1000)>>

\* Math.floor(Date.now() / 1000).toString()
Timestamp(nowMs) == <<ToString(nowMs \div 1000)>>

\* mutant: getPayment signs a JSON envelope of the identifier
getPayment_signed_envelope(paymentId) ==
  <<"{">> \o Quote(<<"id">>) \o <<":">> \o Quote(paymentId) \o <<"}">>

\* the value getPayment hands to the signer
getPayment_signed(paymentId) == paymentId

\* -------------------------------------------------- requests issued
\* mutant: the body is serialized a second time, indented, for transmission
PostRequest_client_reserialized(cl, rawBody, signature) ==
  [method |-> "POST", baseURL |-> cl.baseURL, path |-> <<"/sessions">>,
   body |-> Some(<<" ">> \o rawBody), contentType |-> cl.contentType,
   timeout |-> cl.timeout, apiKey |-> cl.apiKey, signature |-> signature,
   timestamp |-> None]

\* this.http.post('/sessions', rawBody, { headers }) of src/src/client.ts
PostRequest_client(cl, rawBody, signature) ==
  [method |-> "POST", baseURL |-> cl.baseURL, path |-> <<"/sessions">>,
   body |-> Some(rawBody), contentType |-> cl.contentType, timeout |-> cl.timeout,
   apiKey |-> cl.apiKey, signature |-> signature, timestamp |-> None]

\* mutant: the two header values are exchanged
PostRequest_part000_swappedHeaders(cl, rawBody, signature, timestamp) ==
  [method |-> "POST", baseURL |-> cl.baseURL, path |-> <<"/sessions">>,
   body |-> Some(rawBody), contentType |-> cl.contentType, timeout |-> cl.timeout,
   apiKey |-> signature, signature |-> cl.apiKey, timestamp |-> Some(timestamp)]

\* this.http.post('/sessions', rawBody, { headers }) of src/unnamed/part_000
PostRequest_part000(cl, rawBody, signature, timestamp) ==
  [method |-> "POST", baseURL |-> cl.baseURL, path |-> <<"/sessions">>,
   body |-> Some(rawBody), contentType |-> cl.contentType, timeout |-> cl.timeout,
   apiKey |-> cl.apiKey, signature |-> signature, timestamp |-> Some(timestamp)]

\* mutant: the endpoint of release 0.1.0, /payments/:id
GetRequest_payments(cl, paymentId, signature, timestamp) ==
  [method |-> "GET", baseURL |-> cl.baseURL, path |-> <<"/payments/">> \o paymentId,
   body |-> None, contentType |-> cl.contentType, timeout |-> cl.timeout,
   apiKey |-> cl.apiKey, signature |-> signature, timestamp |-> Some(timestamp)]

\* this.http.get(`/sessions/${paymentId}`, { headers })
GetRequest(cl, paymentId, signature, timestamp) ==
  [method |-> "GET", baseURL |-> cl.baseURL, path |-> <<"/sessions/">> \o paymentId,
   body |-> None, contentType |-> cl.contentType, timeout |-> cl.timeout,
   apiKey |-> cl.apiKey, signature |-> signature, timestamp |-> Some(timestamp)]

\* ------------------------------------------------- mapping the outcome
\* e.response?.data?.message
ResponseMessage(e) ==
  IF e.hasResponse /\ e.data.type = "object" THEN e.data.message ELSE None

\* mutant: the transport's text is preferred to the body's message
ErrorMessage_transportFirst(e) ==
  IF e.message # <<>> THEN e.message
  ELSE IF Truthy(ResponseMessage(e)) THEN ResponseMessage(e).v
  ELSE <<"Request failed">>

\* e.response?.data?.message || e.message || 'Request failed'
ErrorMessage(e) ==
  IF Truthy(ResponseMessage(e)) THEN ResponseMessage(e).v
  ELSE IF e.message # <<>> THEN e.message
  ELSE <<"Request failed">>

\* mutant: the response headers are not copied into the APIError
catchHandler_noHeaders(err) ==
  IF err.kind = "axiosError"
    THEN APIError(ErrorMessage(err),
           [status  |-> IF err.hasResponse THEN [some |-> TRUE, v |-> err.status] ELSE NoneNum,
            data    |-> IF err.hasResponse THEN [some |-> TRUE, v |-> err.data] ELSE NoneData,
            headers |-> None])
    ELSE Error(err.message)

\* mutant: status and data are read from the error without the ?. guard
catchHandler_unguarded(err) ==
  IF err.kind = "axiosError"
    THEN APIError(ErrorMessage(err),
           [status  |-> [some |-> TRUE, v |-> err.status],
            data    |-> [some |-> TRUE, v |-> err.data],
            headers |-> err.headers])
    ELSE Error(err.message)

\* the catch block: an AxiosError becomes an APIError, anything else is rethrown
catchHandler(err) ==
  IF err.kind = "axiosError"
    THEN APIError(ErrorMessage(err),
           [status  |-> IF err.hasResponse THEN [some |-> TRUE, v |-> err.status] ELSE NoneNum,
            data    |-> IF err.hasResponse THEN [some |-> TRUE, v |-> err.data] ELSE NoneData,
            headers |-> IF err.hasResponse THEN err.headers ELSE None])
    ELSE Error(err.message)

NoError == Error(<<>>)

NoResult == [kind |-> "none", value |-> NullBody, error |-> NoError]

Returned(value) == [kind |-> "value", value |-> value, error |-> NoError]

Thrown(error) == [kind |-> "error", value |-> NullBody, error |-> error]

\* mutant: the whole response object is returned instead of res.data
Settle_wholeResponse(outcome) ==
  IF outcome.kind = "resolve"
    THEN Returned([type |-> "object", message |-> None,
                   fields |-> <<"status,headers,data:">> \o outcome.data.fields])
  ELSE Thrown(catchHandler(outcome))

\* mutant: the catch block returns the body of an error response
Settle_returnsErrorBody(outcome) ==
  IF outcome.kind = "resolve" \/ outcome.hasResponse THEN Returned(outcome.data)
  ELSE Thrown(catchHandler(outcome))

\* try { const res = await ...; return res.data } catch (err) { ... }
Settle(outcome) ==
  IF outcome.kind = "resolve" THEN Returned(outcome.data)
  ELSE Thrown(catchHandler(outcome))

\* ------------------------------------------------------------- state
IdleCall ==
  [pc |-> "idle", op |-> "none", payload |-> <<>>, paymentId |-> <<>>,
   override |-> None, clock |-> 0, signed |-> <<>>, events |-> <<>>,
   requests |-> <<>>, responses |-> <<>>, result |-> NoResult]

Variants == { "client", "part000" }

Init ==
  /\ variant \in Variants
  /\ config \in Configs
  /\ client = constructor(config)
  /\ calls = [c \in CallIds |-> IdleCall]
  /\ apiError = NoAPIError

\* the synchronous part of a call, up to the request or the throw
Started(op, payload, paymentId, override, clock, sel, request) ==
  [IdleCall EXCEPT
     !.pc       = IF sel.kind = "sig" THEN "pending" ELSE "done",
     !.op       = op,
     !.payload  = payload,
     !.paymentId = paymentId,
     !.override = override,
     !.clock    = clock,
     !.signed   = sel.signed,
     !.events   = (IF clock > 0 THEN <<"now">> ELSE <<>>)
                  \o [i \in 1..Len(sel.signed) |-> "sign"]
                  \o (IF sel.kind = "sig" THEN <<"request">> ELSE <<"throw">>),
     !.requests = IF sel.kind = "sig" THEN <<request>> ELSE <<>>,
     !.result   = IF sel.kind = "sig" THEN NoResult ELSE Thrown(SignatureFailure(sel))]

\* mutant: a failed request is sent a second time
Finished_retry(call, outcome) ==
  [call EXCEPT
     !.pc        = "done",
     !.responses = <<outcome>>,
     !.events    = @ \o (IF outcome.kind = "resolve" THEN <<"settled">>
                         ELSE <<"settled", "request">>),
     !.requests  = IF outcome.kind = "resolve" THEN @ ELSE @ \o @,
     !.result    = Settle(outcome)]

\* the part of a call after the await
Finished(call, outcome) ==
  [call EXCEPT
     !.pc        = "done",
     !.responses = <<outcome>>,
     !.events    = @ \o <<"settled">>,
     !.result    = Settle(outcome)]

\* calls are numbered in the order in which they are made
NextCall(c) ==
  /\ calls[c].pc = "idle"
  /\ IF c = 1 THEN TRUE ELSE calls[c - 1].pc # "idle"

\* createSession(payload, opts) of src/src/client.ts, up to the await
createSession_client(c, payload, override) ==
  /\ variant = "client"
  /\ NextCall(c)
  /\ LET rawBody == JSONstringify(payload)
         sel     == SelectSignature_client(override, client.signer, rawBody)
         request == PostRequest_client(client, rawBody, sel.signature)
     IN  calls' = [calls EXCEPT ![c] =
                     Started("createSession", payload, <<>>, override, 0, sel, request)]
  /\ UNCHANGED <<variant, config, client, apiError>>

\* createSession(payload, opts) of src/unnamed/part_000, up to the await
createSession_part000(c, payload, override, nowMs) ==
  /\ variant = "part000"
  /\ NextCall(c)
  /\ LET rawBody   == JSONstringify(payload)
         timestamp == Timestamp(nowMs)
         sel       == SelectSignature_part000(override, client.signer, rawBody)
         request   == PostRequest_part000(client, rawBody, sel.signature, timestamp)
     IN  calls' = [calls EXCEPT ![c] =
                     Started("createSession", payload, <<>>, override, nowMs, sel, request)]
  /\ UNCHANGED <<variant, config, client, apiError>>

\* mutant: the client keeps the signature of its first request in a field
\* and later calls send that one
getPayment_cachedSignature(c, paymentId, override, nowMs) ==
  /\ variant = "part000"
  /\ NextCall(c)
  /\ LET timestamp == Timestamp(nowMs)
         own       == SelectSignature_part000(override, client.signer,
                                              getPayment_signed(paymentId))
         sel       == IF c > 1 /\ calls[1].requests # <<>> /\ own.kind = "sig"
                        THEN Chosen("sig", calls[1].requests[1].signature, own.signed)
                        ELSE own
         request   == GetRequest(client, paymentId, sel.signature, timestamp)
     IN  calls' = [calls EXCEPT ![c] =
                     Started("getPayment", <<>>, paymentId, override, nowMs, sel, request)]
  /\ UNCHANGED <<variant, config, client, apiError>>

\* getPayment(paymentId, opts) of src/unnamed/part_000, up to the await
getPayment(c, paymentId, override, nowMs) ==
  /\ variant = "part000"
  /\ NextCall(c)
  /\ LET timestamp == Timestamp(nowMs)
         sel       == SelectSignature_part000(override, client.signer,
                                              getPayment_signed(paymentId))
         request   == GetRequest(client, paymentId, sel.signature, timestamp)
     IN  calls' = [calls EXCEPT ![c] =
                     Started("getPayment", <<>>, paymentId, override, nowMs, sel, request)]
  /\ UNCHANGED <<variant, config, client, apiError>>

\* the awaited promise settles: return res.data, or the catch block
createSession_client_settled(c, outcome) ==
  /\ variant = "client"
  /\ calls[c].pc = "pending"
  /\ calls[c].op = "createSession"
  /\ calls' = [calls EXCEPT ![c] = Finished(calls[c], outcome)]
  /\ UNCHANGED <<variant, config, client, apiError>>

createSession_part000_settled(c, outcome) ==
  /\ variant = "part000"
  /\ calls[c].pc = "pending"
  /\ calls[c].op = "createSession"
  /\ calls' = [calls EXCEPT ![c] = Finished(calls[c], outcome)]
  /\ UNCHANGED <<variant, config, client, apiError>>

\* mutant: a failed getPayment discards the client's signer
getPayment_settled_dropsSigner(c, outcome) ==
  /\ variant = "part000"
  /\ calls[c].pc = "pending"
  /\ calls[c].op = "getPayment"
  /\ calls' = [calls EXCEPT ![c] = Finished(calls[c], outcome)]
  /\ client' = IF outcome.kind = "resolve" THEN client
               ELSE [client EXCEPT !.signer = NoSigner]
  /\ UNCHANGED <<variant, config, apiError>>

getPayment_settled(c, outcome) ==
  /\ variant = "part000"
  /\ calls[c].pc = "pending"
  /\ calls[c].op = "getPayment"
  /\ calls' = [calls EXCEPT ![c] = Finished(calls[c], outcome)]
  /\ UNCHANGED <<variant, config, client, apiError>>

Next ==
  \/ \E c \in DOMAIN calls, p \in Payloads, o \in Overrides :
       createSession_client(c, p, o)
  \/ \E c \in DOMAIN calls, p \in Payloads, o \in Overrides, t \in NowValues :
       createSession_part000(c, p, o, t)
  \/ \E c \in DOMAIN calls, id \in PaymentIds, o \in Overrides, t \in NowValues :
       getPayment(c, id, o, t)
  \/ \E c \in DOMAIN calls : \E outcome \in Outcomes("createSession", client.timeout) :
       createSession_client_settled(c, outcome)
  \/ \E c \in DOMAIN calls : \E outcome \in Outcomes("createSession", client.timeout) :
       createSession_part000_settled(c, outcome)
  \/ \E c \in DOMAIN calls : \E outcome \in Outcomes("getPayment", client.timeout) :
       getPayment_settled(c, outcome)

Spec == Init /\ [][Next]_vars

\* ------------------------------------------- several calls in flight
\* number of calls made on one client without waiting for one another
MaxInFlight == 2

\* a client built with an apiKey and an apiSecret, everything else default
DefaultConfig ==
  [apiKey |-> DefaultKey, apiSecret |-> DefaultSecret, environment |-> None,
   baseURL |-> None, signer |-> NoCustomSigner, timeoutMs |-> NoneNum]

InitConcurrent ==
  /\ variant \in Variants
  /\ config = DefaultConfig
  /\ client = constructor(config)
  /\ calls = [c \in 1..MaxInFlight |-> IdleCall]
  /\ apiError = NoAPIError

ConcurrentOverrides == { None, Some(<<"override-signature">>) }

ConcurrentNow == { 2000 }

\* a success, an error response and, when a timeout is set, the timeout
ConcurrentOutcomes(op, timeout) ==
  { Resolve(200, IF op = "getPayment" THEN PaymentBody ELSE SessionBody),
    RejectStatus(400, InvalidRequestBody) }
  \cup (IF timeout > 0 THEN { TimedOut(timeout) } ELSE {})

\* calls are started and answered in any order
NextConcurrent ==
  \/ \E c \in DOMAIN calls, p \in Payloads, o \in ConcurrentOverrides :
       createSession_client(c, p, o)
  \/ \E c \in DOMAIN calls, p \in Payloads, o \in ConcurrentOverrides, t \in ConcurrentNow :
       createSession_part000(c, p, o, t)
  \/ \E c \in DOMAIN calls, id \in PaymentIds, o \in ConcurrentOverrides, t \in ConcurrentNow :
       getPayment(c, id, o, t)
  \/ \E c \in DOMAIN calls : \E outcome \in ConcurrentOutcomes("createSession", client.timeout) :
       createSession_client_settled(c, outcome)
  \/ \E c \in DOMAIN calls : \E outcome \in ConcurrentOutcomes("createSession", client.timeout) :
       createSession_part000_settled(c, outcome)
  \/ \E c \in DOMAIN calls : \E outcome \in ConcurrentOutcomes("getPayment", client.timeout) :
       getPayment_settled(c, outcome)

SpecConcurrent == InitConcurrent /\ [][NextConcurrent]_vars

\* ------------------------------------------------ the request timeout
\* number of calls whose completion is followed
MaxPending == 1

InitLive ==
  /\ variant \in Variants
  /\ config \in { [DefaultConfig EXCEPT !.timeoutMs = t] : t \in TimeoutOptions }
  /\ client = constructor(config)
  /\ calls = [c \in 1..MaxPending |-> IdleCall]
  /\ apiError = NoAPIError

\* the timer of the pending request of call c goes off; axios arms no timer
\* for a timeout of 0
TimeoutExpires(c) ==
  /\ client.timeout > 0
  /\ \/ createSession_client_settled(c, TimedOut(client.timeout))
     \/ createSession_part000_settled(c, TimedOut(client.timeout))
     \/ getPayment_settled(c, TimedOut(client.timeout))

\* the gateway may never answer; a timer that was armed does go off
SpecLive ==
  /\ InitLive
  /\ [][NextConcurrent]_vars
  /\ \A c \in 1..MaxPending : WF_vars(TimeoutExpires(c))

\* ------------------------------------------------ APIError on its own
ErrorMessages ==
  { <<"Something went wrong">>, <<"Not found">>, <<"Server error">>, <<>> }

ErrorStatuses == { NoneNum, [some |-> TRUE, v |-> 404], [some |-> TRUE, v |-> 500] }

ErrorData == { NoneData, [some |-> TRUE, v |-> NotFoundBody], [some |-> TRUE, v |-> NullBody] }

ErrorHeaders == { None, Some(<<"x-request-id: 123">>) }

\* the second argument of the constructor: omitted, or an object in which
\* each of status, data and headers is given or not
ErrorOptions ==
  { [some |-> FALSE, v |-> NoOpts] }
  \cup { [some |-> TRUE, v |-> [status |-> st, data |-> d, headers |-> h]] :
           st \in ErrorStatuses, d \in ErrorData, h \in ErrorHeaders }

\* new APIError(message) and new APIError(message, opts): opts = {} when
\* the argument is omitted
APIError_new(message, optsArg) ==
  APIError(message, IF optsArg.some THEN optsArg.v ELSE NoOpts)

InitErrors ==
  /\ variant \in Variants
  /\ config = DefaultConfig
  /\ client = constructor(config)
  /\ calls = <<>>
  /\ apiError = NoAPIError

NewAPIError(message, optsArg) ==
  /\ apiError' = [message |-> message, opts |-> optsArg,
                  built |-> <<APIError_new(message, optsArg)>>]
  /\ UNCHANGED <<variant, config, client, calls>>

NextErrors ==
  \E message \in ErrorMessages, optsArg \in ErrorOptions : NewAPIError(message, optsArg)

SpecErrors == InitErrors /\ [][NextErrors]_vars

\* =================================================================
\* Properties
\* =================================================================
HasStarted(c) == calls[c].pc # "idle"

\* every occurrence of event b in ev comes after an occurrence of event a
Precedes(ev, a, b) ==
  \A j \in 1..Len(ev) : ev[j] = b => \E i \in 1..(j - 1) : ev[i] = a

\* C1 as stated: whenever a signatureOverride is supplied (any string), the
\* signer is not invoked during the call and a request of the call carries
\* the override as X-SIGNATURE.
C1_AnyOverrideBypassesSigner ==
  \A c \in DOMAIN calls :
    (HasStarted(c) /\ calls[c].override.some) =>
      /\ calls[c].signed = <<>>
      /\ \A i \in 1..Len(calls[c].requests) :
           calls[c].requests[i].signature = calls[c].override.v

\* C1 amended: whenever a non-empty signatureOverride is supplied, whatever
\* signer or apiSecret is configured, the signer is never invoked during the
\* call and the call issues its request with X-SIGNATURE equal to the
\* override verbatim.
C1_NonEmptyOverrideBypassesSigner ==
  \A c \in DOMAIN calls :
    (HasStarted(c) /\ Truthy(calls[c].override)) =>
      /\ calls[c].signed = <<>>
      /\ ~("sign" \in { calls[c].events[i] : i \in 1..Len(calls[c].events) })
      /\ Len(calls[c].requests) = 1
      /\ calls[c].requests[1].signature = calls[c].override.v

\* a call with a non-empty override on a client that has a signer was answered
C1_Witness ==
  \E c \in DOMAIN calls :
    /\ calls[c].pc = "done"
    /\ Truthy(calls[c].override)
    /\ client.signer.kind # "none"
    /\ Len(calls[c].requests) = 1

\* C2: on a client built with neither apiSecret nor signer, a call made
\* without signatureOverride is over at once with the 'No signature
\* available...' error, and the call never issues an HTTP request.
C2_NoSignatureNoRequest ==
  \A c \in DOMAIN calls :
    (HasStarted(c) /\ ~config.apiSecret.some /\ ~config.signer.some
       /\ ~calls[c].override.some) =>
      /\ calls[c].pc = "done"
      /\ calls[c].result.kind = "error"
      /\ calls[c].result.error.name = "Error"
      /\ calls[c].result.error.message = NoSignatureMessage
      /\ calls[c].requests = <<>>
      /\ calls[c].responses = <<>>
      /\ ~("request" \in { calls[c].events[i] : i \in 1..Len(calls[c].events) })

\* getPayment was called without override on a client with no secret and no signer
C2_Witness ==
  \E c \in DOMAIN calls :
    /\ calls[c].op = "getPayment"
    /\ ~config.apiSecret.some /\ ~config.signer.some
    /\ ~calls[c].override.some
    /\ calls[c].result.kind = "error"

\* C3: in a createSession call without override on a client with a signer,
\* the signer is handed exactly one string, the JSON serialization of the
\* payload; a request of the call has that same string as its body and the
\* signer's result for it as X-SIGNATURE; and the signer is invoked before
\* the request is issued.
C3_SignedBodyIsSentBody ==
  \A c \in DOMAIN calls :
    (HasStarted(c) /\ calls[c].op = "createSession" /\ ~calls[c].override.some
       /\ client.signer.kind # "none") =>
      /\ calls[c].signed = << JSONstringify(calls[c].payload) >>
      /\ Precedes(calls[c].events, "sign", "request")
      /\ \A i \in 1..Len(calls[c].requests) :
           /\ calls[c].requests[i].body = Some(calls[c].signed[1])
           /\ calls[c].requests[i].signature =
                Signer_sign(client.signer, calls[c].signed[1]).value

\* a createSession request signed by the default signer is in flight
C3_Witness ==
  \E c \in DOMAIN calls :
    /\ calls[c].op = "createSession"
    /\ ~calls[c].override.some
    /\ client.signer.kind = "hmac"
    /\ Len(calls[c].requests) = 1
    /\ calls[c].requests[1].signature # <<>>

\* C4: in a getPayment call without override on a client with a signer, the
\* signer is handed exactly the paymentId string, and a request of the call
\* carries the signer's result for the paymentId as X-SIGNATURE.
C4_GetPaymentSignsBareId ==
  \A c \in DOMAIN calls :
    (HasStarted(c) /\ calls[c].op = "getPayment" /\ ~calls[c].override.some
       /\ client.signer.kind # "none") =>
      /\ calls[c].signed = << calls[c].paymentId >>
      /\ \A i \in 1..Len(calls[c].requests) :
           calls[c].requests[i].signature =
             Signer_sign(client.signer, calls[c].paymentId).value

\* a getPayment request signed by a signer is in flight
C4_Witness ==
  \E c \in DOMAIN calls :
    /\ calls[c].op = "getPayment"
    /\ ~calls[c].override.some
    /\ client.signer.kind # "none"
    /\ Len(calls[c].requests) = 1

SandboxURL == <<"https://sandbox.checkout.rdcard.net/api/v1">>

LiveURL == <<"https://checkout.rdcard.net/api/v1">>

\* C5: the base URL of the client, and of every request it issues, is the one
\* fixed at construction: the explicit baseURL when supplied, whatever the
\* environment; otherwise the live URL when environment is 'live'; otherwise
\* (environment 'sandbox' or omitted) the sandbox URL.
C5_BaseURLFixedAtConstruction ==
  LET expected == IF config.baseURL.some THEN config.baseURL.v
                  ELSE IF config.environment = Some(<<"live">>) THEN LiveURL
                  ELSE SandboxURL
  IN  /\ client.baseURL = expected
      /\ \A c \in DOMAIN calls : \A i \in 1..Len(calls[c].requests) :
           calls[c].requests[i].baseURL = expected

\* a request went out to an explicit baseURL although environment is 'live'
C5_Witness ==
  \E c \in DOMAIN calls :
    /\ Len(calls[c].requests) = 1
    /\ config.baseURL.some
    /\ config.environment = Some(<<"live">>)

\* the signer a signature of call c was computed with, judged by its result
SignedWith(c, signer) ==
  \A i \in 1..Len(calls[c].requests) :
    calls[c].signed # <<>> =>
      calls[c].requests[i].signature = Signer_sign(signer, calls[c].signed[1]).value

\* C6 as stated: the effective signer is the explicit signer when supplied,
\* else the HMAC signer keyed by apiSecret whenever apiSecret is present
\* (any string), else none.
C6_SecretPresentGivesHmac ==
  client.signer = IF config.signer.some THEN CustomSigner(config.signer.v)
                  ELSE IF config.apiSecret.some THEN HmacSha256Signer(config.apiSecret.v)
                  ELSE NoSigner

\* C6 amended: at every moment the effective signer is the one resolved at
\* construction: the explicit signer when supplied, even with an apiSecret;
\* else the HMAC signer keyed by apiSecret when apiSecret is a non-empty
\* string; else (apiSecret omitted or empty) none; and signatures computed by
\* a call are that signer's.
C6_SignerPrecedence ==
  LET expected == IF config.signer.some THEN CustomSigner(config.signer.v)
                  ELSE IF config.apiSecret.some /\ config.apiSecret.v # <<>>
                    THEN HmacSha256Signer(config.apiSecret.v)
                  ELSE NoSigner
  IN  /\ client.signer = expected
      /\ \A c \in DOMAIN calls :
           /\ SignedWith(c, expected)
           /\ (expected = NoSigner => calls[c].signed = <<>>)

\* a request was signed by the explicit signer of a client that also has a secret
C6_Witness ==
  \E c \in DOMAIN calls :
    /\ config.signer.some
    /\ Truthy(config.apiSecret)
    /\ calls[c].signed # <<>>
    /\ Len(calls[c].requests) = 1

Is2xx(status) == status >= 200 /\ status <= 299

\* C7: when the response to a call has a 2xx status, the call returns a value
\* and that value is the response body, unchanged.
C7_SuccessReturnsBody ==
  \A c \in DOMAIN calls : \A i \in 1..Len(calls[c].responses) :
    (calls[c].responses[i].hasResponse /\ Is2xx(calls[c].responses[i].status)) =>
      /\ calls[c].pc = "done"
      /\ calls[c].result.kind = "value"
      /\ calls[c].result.value = calls[c].responses[i].data

\* a getPayment call got a 2xx response
C7_Witness ==
  \E c \in DOMAIN calls :
    /\ calls[c].op = "getPayment"
    /\ Len(calls[c].responses) = 1
    /\ calls[c].responses[1].hasResponse
    /\ Is2xx(calls[c].responses[1].status)

\* C8: when the response to a call has a non-2xx status, the call fails with
\* an APIError whose status is that status code, whose data is the response
\* body and whose headers are the response headers.
C8_NonSuccessBecomesAPIError ==
  \A c \in DOMAIN calls : \A i \in 1..Len(calls[c].responses) :
    (calls[c].responses[i].hasResponse /\ ~Is2xx(calls[c].responses[i].status)) =>
      /\ calls[c].pc = "done"
      /\ calls[c].result.kind = "error"
      /\ calls[c].result.error.name = "APIError"
      /\ calls[c].result.error.status = [some |-> TRUE, v |-> calls[c].responses[i].status]
      /\ calls[c].result.error.data = [some |-> TRUE, v |-> calls[c].responses[i].data]
      /\ calls[c].result.error.headers = calls[c].responses[i].headers

\* a getPayment call got a 404 response
C8_Witness ==
  \E c \in DOMAIN calls :
    /\ calls[c].op = "getPayment"
    /\ Len(calls[c].responses) = 1
    /\ calls[c].responses[1].hasResponse
    /\ calls[c].responses[1].status = 404

\* the body of a response has a message field
HasMessageField(resp) == resp.data.type = "object" /\ resp.data.message.some

\* C9 as stated: for a non-2xx response the error's message is the body's
\* message field whenever that field is present, else the transport's text.
C9_MessageFieldIfPresent ==
  \A c \in DOMAIN calls : \A i \in 1..Len(calls[c].responses) :
    (calls[c].responses[i].hasResponse /\ ~Is2xx(calls[c].responses[i].status)) =>
      calls[c].result.error.message =
        IF HasMessageField(calls[c].responses[i])
          THEN calls[c].responses[i].data.message.v
          ELSE calls[c].responses[i].message

\* C9 amended: for a non-2xx response the error's message is the body's
\* message field if that field is present and not empty; otherwise the
\* transport's error text, or 'Request failed' when that text is empty.
C9_MessageFieldIfNonEmpty ==
  \A c \in DOMAIN calls : \A i \in 1..Len(calls[c].responses) :
    (calls[c].responses[i].hasResponse /\ ~Is2xx(calls[c].responses[i].status)) =>
      calls[c].result.error.message =
        IF HasMessageField(calls[c].responses[i])
             /\ calls[c].responses[i].data.message.v # <<>>
          THEN calls[c].responses[i].data.message.v
        ELSE IF calls[c].responses[i].message # <<>>
          THEN calls[c].responses[i].message
        ELSE <<"Request failed">>

\* a non-2xx response whose body has a non-empty message field was mapped
C9_Witness ==
  \E c \in DOMAIN calls :
    /\ Len(calls[c].responses) = 1
    /\ calls[c].responses[1].hasResponse
    /\ ~Is2xx(calls[c].responses[1].status)
    /\ HasMessageField(calls[c].responses[1])
    /\ calls[c].responses[1].data.message.v # <<>>
    /\ calls[c].result.kind = "error"

\* the transport failed without a response
TransportFailure(resp) == resp.kind = "axiosError" /\ ~resp.hasResponse

\* C10 as stated: when the transport fails without a response the call fails
\* with an error whose message is the transport's description and whose
\* status, data and headers are absent.
C10_TransportFailureMessage ==
  \A c \in DOMAIN calls : \A i \in 1..Len(calls[c].responses) :
    TransportFailure(calls[c].responses[i]) =>
      /\ calls[c].result.kind = "error"
      /\ calls[c].result.error.message = calls[c].responses[i].message
      /\ ~calls[c].result.error.status.some
      /\ ~calls[c].result.error.data.some
      /\ ~calls[c].result.error.headers.some

\* C10 amended: when the transport fails without a response the call fails
\* with an error whose message is the transport's description, or 'Request
\* failed' when the transport's error has an empty message, and whose status,
\* data and headers are absent.
C10_TransportFailureNoStatus ==
  \A c \in DOMAIN calls : \A i \in 1..Len(calls[c].responses) :
    TransportFailure(calls[c].responses[i]) =>
      /\ calls[c].pc = "done"
      /\ calls[c].result.kind = "error"
      /\ calls[c].result.error.message =
           IF calls[c].responses[i].message # <<>>
             THEN calls[c].responses[i].message
             ELSE <<"Request failed">>
      /\ ~calls[c].result.error.status.some
      /\ ~calls[c].result.error.data.some
      /\ ~calls[c].result.error.headers.some

\* a call timed out: the transport failed with its timeout text
C10_Witness ==
  \E c \in DOMAIN calls :
    /\ Len(calls[c].responses) = 1
    /\ TransportFailure(calls[c].responses[1])
    /\ calls[c].responses[1].message = TimeoutMessage(client.timeout)
    /\ calls[c].result.kind = "error"

\* the events of call c, as a set
Events(c) == { calls[c].events[i] : i \in 1..Len(calls[c].events) }

\* the number of requests call c has issued
Issued(c) == Len(calls[c].requests)

\* C11: the library never retries: in every step a call has issued at most
\* one HTTP request, and once a call has received its answer (a response of
\* any status or a transport failure) it issues nothing more.
C11_NeverRetries ==
  [][\A c \in DOMAIN calls :
       /\ Len(calls'[c].requests) <= 1
       /\ Len(calls'[c].responses) <= 1
       /\ (calls[c].responses # <<>> \/ calls[c].pc = "done") =>
            calls'[c].requests = calls[c].requests
       /\ (calls'[c].responses # <<>> /\ calls'[c].responses[1].kind # "resolve") =>
            (Len(calls'[c].requests) = 1 /\ calls'[c].pc = "done")]_vars

\* a call that issued its one request got a non-2xx response and is over
C11_Witness ==
  \E c \in DOMAIN calls :
    /\ calls[c].pc = "done"
    /\ Issued(c) = 1
    /\ Len(calls[c].responses) = 1
    /\ calls[c].responses[1].hasResponse
    /\ ~Is2xx(calls[c].responses[1].status)

\* C12: a call that is over has exactly one outcome, a value or a failure,
\* never both; it has a value only if it received a 2xx response, so never
\* when the response was non-2xx or absent; and a call that is not over has
\* no outcome yet.
C12_ExactlyOneOutcome ==
  \A c \in DOMAIN calls :
    /\ calls[c].pc = "done" <=> calls[c].result.kind \in {"value", "error"}
    /\ calls[c].pc # "done" => calls[c].result = NoResult
    /\ calls[c].result.kind = "value" =>
         /\ calls[c].result.error = NoError
         /\ Len(calls[c].responses) = 1
         /\ calls[c].responses[1].hasResponse
         /\ Is2xx(calls[c].responses[1].status)
         /\ calls[c].result.value = calls[c].responses[1].data
    /\ calls[c].result.kind = "error" =>
         /\ calls[c].result.value = NullBody
         /\ \A i \in 1..Len(calls[c].responses) :
              ~(calls[c].responses[i].hasResponse /\ Is2xx(calls[c].responses[i].status))

\* a call that got an error response carrying a body failed, without a value
C12_Witness ==
  \E c \in DOMAIN calls :
    /\ calls[c].pc = "done"
    /\ Len(calls[c].responses) = 1
    /\ calls[c].responses[1].hasResponse
    /\ calls[c].responses[1].data = InvalidRequestBody
    /\ calls[c].result.kind = "error"
    /\ calls[c].result.value = NullBody

\* what call c hands to the signer, from its own arguments
OwnSignedInput(c) ==
  IF calls[c].op = "getPayment" THEN calls[c].paymentId
  ELSE JSONstringify(calls[c].payload)

\* the request of call c is made of its own arguments and the configuration
OwnRequest(c) ==
  \A i \in 1..Len(calls[c].requests) :
    LET r == calls[c].requests[i]
    IN  /\ r.signature = IF Truthy(calls[c].override) THEN calls[c].override.v
                         ELSE Signer_sign(constructor(config).signer, OwnSignedInput(c)).value
        /\ r.body = IF calls[c].op = "getPayment" THEN None
                    ELSE Some(JSONstringify(calls[c].payload))
        /\ r.path = IF calls[c].op = "getPayment" THEN <<"/sessions/">> \o calls[c].paymentId
                    ELSE <<"/sessions">>

\* the outcome of call c is made of the response call c itself received
OwnOutcome(c) ==
  /\ (calls[c].pc = "done" /\ calls[c].requests # <<>>) => Len(calls[c].responses) = 1
  /\ \A i \in 1..Len(calls[c].responses) :
       LET a == calls[c].responses[i]
       IN  IF a.kind = "resolve"
             THEN calls[c].result.kind = "value" /\ calls[c].result.value = a.data
             ELSE /\ calls[c].result.kind = "error"
                  /\ calls[c].result.error.status.some = a.hasResponse
                  /\ a.hasResponse =>
                       /\ calls[c].result.error.status.v = a.status
                       /\ calls[c].result.error.data.v = a.data

\* C13: with several calls in flight on one client and their answers arriving
\* in any order, the request and the outcome of each call are made of that
\* call's own arguments, the configuration and that call's own response, and
\* a step of one call leaves every other call as it was.
C13_CallsAreIndependent ==
  /\ [](\A c \in DOMAIN calls : OwnRequest(c) /\ OwnOutcome(c))
  /\ [][\A c, d \in DOMAIN calls :
         c # d => (calls'[c] = calls[c] \/ calls'[d] = calls[d])]_vars

\* the second call, made with other arguments while the first was pending,
\* is over and the first is still waiting for its answer
C13_Witness ==
  /\ MaxInFlight >= 2
  /\ calls[1].pc = "pending"
  /\ calls[2].pc = "done"
  /\ Len(calls[2].responses) = 1
  /\ calls[2].requests[1].signature # calls[1].requests[1].signature
  /\ ~Truthy(calls[2].override)

\* the signature call c determined: the override when one is used, else the
\* signer's result for the input it was handed
DeterminedSignature(c) ==
  IF calls[c].signed = <<>> THEN calls[c].override.v
  ELSE Signer_sign(client.signer, calls[c].signed[1]).value

\* C14: every HTTP request of a call carries X-API-KEY equal to the apiKey
\* given at construction and X-SIGNATURE equal to the signature determined
\* for that call.
C14_AuthenticationHeaders ==
  \A c \in DOMAIN calls : \A i \in 1..Len(calls[c].requests) :
    /\ calls[c].requests[i].apiKey = config.apiKey
    /\ calls[c].requests[i].signature = DeterminedSignature(c)
    /\ (calls[c].signed = <<>>) = Truthy(calls[c].override)

\* a request went out from a client built with the second api key
C14_Witness ==
  \E c \in DOMAIN calls :
    /\ Issued(c) = 1
    /\ config.apiKey = <<"invalid-key">>
    /\ calls[c].requests[1].apiKey = <<"invalid-key">>
    /\ calls[c].signed # <<>>

\* C15: createSession issues a POST to /sessions under the base URL with the
\* serialized payload as body; getPayment issues a GET without body to
\* /sessions/ followed by the paymentId as given, not URL-encoded.
C15_MethodPathBody ==
  \A c \in DOMAIN calls : \A i \in 1..Len(calls[c].requests) :
    LET r == calls[c].requests[i]
    IN  /\ r.baseURL = client.baseURL
        /\ calls[c].op = "createSession" =>
             /\ r.method = "POST"
             /\ r.path = <<"/sessions">>
             /\ r.body = Some(JSONstringify(calls[c].payload))
        /\ calls[c].op = "getPayment" =>
             /\ r.method = "GET"
             /\ r.path = <<"/sessions/">> \o calls[c].paymentId
             /\ r.body = None

\* getPayment issued its request for an identifier with reserved characters
C15_Witness ==
  \E c \in DOMAIN calls :
    /\ calls[c].op = "getPayment"
    /\ Issued(c) = 1
    /\ calls[c].paymentId = <<"pay/4 5">>
    /\ calls[c].requests[1].path = <<"/sessions/", "pay/4 5">>

\* C16 as stated: every call whose request has been issued eventually
\* completes, whatever the configured timeout.
C16_EveryIssuedCallCompletes ==
  \A c \in 1..MaxPending : (calls[c].pc = "pending") ~> (calls[c].pc = "done")

\* C16 amended: requests are sent with the configured timeout, timeoutMs or
\* 15000 when it is omitted; a call whose timer went off has failed with an
\* error without status, data and headers; and every call whose request was
\* issued with a timeout other than 0 eventually completes.
C16_IssuedCallCompletesWithinTimeout ==
  /\ [](\A c \in DOMAIN calls :
          /\ \A i \in 1..Len(calls[c].requests) :
               calls[c].requests[i].timeout =
                 IF config.timeoutMs.some THEN config.timeoutMs.v ELSE 15000
          /\ \A i \in 1..Len(calls[c].responses) :
               (TransportFailure(calls[c].responses[i])
                  /\ calls[c].responses[i].message = TimeoutMessage(calls[c].requests[1].timeout)) =>
                 /\ calls[c].requests[1].timeout > 0
                 /\ calls[c].pc = "done"
                 /\ calls[c].result.kind = "error"
                 /\ ~calls[c].result.error.status.some
                 /\ ~calls[c].result.error.data.some
                 /\ ~calls[c].result.error.headers.some)
  /\ \A c \in 1..MaxPending :
       (calls[c].pc = "pending" /\ calls[c].requests[1].timeout > 0)
          ~> (calls[c].pc = "done")

\* a call of a client built without timeoutMs failed on the 15000 ms timeout
C16_Witness ==
  \E c \in DOMAIN calls :
    /\ ~config.timeoutMs.some
    /\ calls[c].pc = "done"
    /\ Len(calls[c].responses) = 1
    /\ calls[c].responses[1] = TimedOut(15000)
    /\ calls[c].result.kind = "error"
    /\ ~calls[c].result.error.status.some

\* call c sent a request whose signature the default signer computed
DefaultSigned(c) ==
  /\ client.signer.kind = "hmac"
  /\ calls[c].signed # <<>>
  /\ calls[c].requests # <<>>

C18_ConfigurationIsFrozen ==
  /\ [](/\ client = constructor(config)
        /\ \A c \in DOMAIN calls : \A i \in 1..Len(calls[c].requests) :
             LET fresh == constructor(config)
                 r     == calls[c].requests[i]
             IN  /\ r.apiKey = fresh.apiKey
                 /\ r.baseURL = fresh.baseURL
                 /\ r.timeout = fresh.timeout
                 /\ calls[c].signed # <<>> =>
                      r.signature = Signer_sign(fresh.signer, calls[c].signed[1]).value)
  /\ [][client' = client /\ config' = config]_vars

\* one call has failed and a later call has sent a signed request
C18_Witness ==
  \E c, d \in DOMAIN calls :
    /\ c < d
    /\ calls[c].pc = "done"
    /\ calls[c].result.kind = "error"
    /\ calls[d].requests # <<>>
    /\ calls[d].signed # <<>>

\* C19: an APIError built from a message and options carries that message,
\* the name 'APIError', and status, data and headers equal to the options'
\* fields; an option not given is undefined, and with the message alone all
\* three are undefined.
C19_APIErrorCarriesOptions ==
  \A i \in 1..Len(apiError.built) :
    LET e == apiError.built[i]
    IN  /\ e.name = "APIError"
        /\ e.message = apiError.message
        /\ apiError.opts.some =>
             /\ e.status = apiError.opts.v.status
             /\ e.data = apiError.opts.v.data
             /\ e.headers = apiError.opts.v.headers
        /\ ~apiError.opts.some =>
             /\ ~e.status.some
             /\ ~e.data.some
             /\ ~e.headers.some

\* an error was built from a message, a status and data, without headers
C19_Witness ==
  /\ apiError.built # <<>>
  /\ apiError.message = <<"Not found">>
  /\ apiError.opts.some
  /\ apiError.built[1].status = [some |-> TRUE, v |-> 404]
  /\ apiError.built[1].data.some
  /\ ~apiError.built[1].headers.some

\* the whole seconds in ms milliseconds
WholeSeconds(ms) == CHOOSE n \in 0..ms : n * 1000 <= ms /\ ms < (n + 1) * 1000

\* C20: in src/unnamed/part_000 every request carries X-TIMESTAMP equal to
\* the decimal string of floor(now_ms / 1000); the clock is read once, at the
\* start of the call, before the signature is determined; and the timestamp
\* is not part of the signed input.
C20_TimestampIsWholeSeconds ==
  \A c \in DOMAIN calls :
    (variant = "part000" /\ HasStarted(c)) =>
      /\ calls[c].events[1] = "now"
      /\ \A j \in 2..Len(calls[c].events) : calls[c].events[j] # "now"
      /\ \A i \in 1..Len(calls[c].requests) :
           calls[c].requests[i].timestamp =
             [some |-> TRUE, v |-> <<ToString(WholeSeconds(calls[c].clock))>>]
      /\ \A i \in 1..Len(calls[c].signed) :
           calls[c].signed[i] = OwnSignedInput(c)

\* a signed request went out 1999 ms after the epoch, stamped "1"
C20_Witness ==
  \E c \in DOMAIN calls :
    /\ variant = "part000"
    /\ calls[c].clock = 1999
    /\ calls[c].signed # <<>>
    /\ calls[c].requests # <<>>
    /\ calls[c].requests[1].timestamp = Some(<<"1">>)

\* call c failed with the missing-signature error and issued no request
MissingSignature(c) ==
  /\ calls[c].pc = "done"
  /\ calls[c].result.kind = "error"
  /\ calls[c].result.error.name = "Error"
  /\ calls[c].result.error.message = NoSignatureMessage
  /\ calls[c].requests = <<>>
  /\ calls[c].responses = <<>>

\* C21: in src/unnamed/part_000, for both operations, an empty-string
\* signatureOverride is treated as not supplied: with a signer configured
\* the signer is invoked and what it returns is sent as X-SIGNATURE, and
\* with no signer the call fails with the missing-signature error.
C21_EmptyOverrideIsNoOverride ==
  \A c \in DOMAIN calls :
    (variant = "part000" /\ HasStarted(c) /\ calls[c].override = Some(<<>>)) =>
      IF client.signer.kind = "none"
        THEN calls[c].signed = <<>> /\ MissingSignature(c)
        ELSE /\ calls[c].signed = <<OwnSignedInput(c)>>
             /\ LET r == Signer_sign(client.signer, OwnSignedInput(c))
                IN  ~r.threw =>
                      /\ Len(calls[c].requests) = 1
                      /\ calls[c].requests[1].signature = r.value

\* getPayment with the override "" on a client with the default signer sent
\* the signer's result
C21_Witness ==
  \E c \in DOMAIN calls :
    /\ variant = "part000"
    /\ calls[c].op = "getPayment"
    /\ calls[c].override = Some(<<>>)
    /\ client.signer.kind = "hmac"
    /\ calls[c].signed = <<calls[c].paymentId>>
    /\ Len(calls[c].requests) = 1
    /\ calls[c].requests[1].signature # <<>>

\* C22: in src/src/client.ts createSession no request is ever issued with an
\* empty X-SIGNATURE: an empty-string signatureOverride is not replaced by
\* the signer's result, and with it, or with a signer that returns the empty
\* string, the call fails with the missing-signature error and no request.
C22_NoEmptySignatureSent ==
  \A c \in DOMAIN calls :
    (variant = "client" /\ HasStarted(c)) =>
      /\ \A i \in 1..Len(calls[c].requests) : calls[c].requests[i].signature # <<>>
      /\ calls[c].override = Some(<<>>) =>
           calls[c].signed = <<>> /\ MissingSignature(c)
      /\ (/\ ~calls[c].override.some
          /\ client.signer.kind # "none"
          /\ Signer_sign(client.signer, OwnSignedInput(c)) = [threw |-> FALSE, value |-> <<>>]) =>
           calls[c].signed = <<OwnSignedInput(c)>> /\ MissingSignature(c)

\* createSession with the override "" failed on a client that has a signer
C22_Witness ==
  \E c \in DOMAIN calls :
    /\ variant = "client"
    /\ calls[c].op = "createSession"
    /\ calls[c].override = Some(<<>>)
    /\ client.signer.kind = "hmac"
    /\ calls[c].signed = <<>>
    /\ MissingSignature(c)

\* C23: in src/unnamed/part_000 the missing-signature error is raised only
\* when no signer is configured and no non-empty override is given; whatever
\* string the configured signer returns, the empty string included, is sent
\* verbatim as X-SIGNATURE and the request is issued.
C23_SignerResultSentVerbatim ==
  \A c \in DOMAIN calls :
    (variant = "part000" /\ HasStarted(c)) =>
      /\ MissingSignature(c) =>
           client.signer.kind = "none" /\ ~Truthy(calls[c].override)
      /\ (client.signer.kind # "none" /\ ~Truthy(calls[c].override)
            /\ ~Signer_sign(client.signer, OwnSignedInput(c)).threw) =>
           /\ Len(calls[c].requests) = 1
           /\ calls[c].requests[1].signature =
                Signer_sign(client.signer, OwnSignedInput(c)).value

\* a request went out with the empty signature a custom signer returned
C23_Witness ==
  \E c \in DOMAIN calls :
    /\ variant = "part000"
    /\ config.signer = [some |-> TRUE, v |-> "empty"]
    /\ ~calls[c].override.some
    /\ calls[c].signed # <<>>
    /\ Len(calls[c].requests) = 1
    /\ calls[c].requests[1].signature = <<>>

\* C24: a client constructed with an empty-string apiSecret and no signer has
\* no effective signer: it is the client built with apiSecret omitted, and
\* every call without a signatureOverride fails with the missing-signature
\* error without issuing a request.
C24_EmptySecretIsNoSecret ==
  (config.apiSecret = Some(<<>>) /\ ~config.signer.some) =>
    /\ client.signer = NoSigner
    /\ client = constructor([config EXCEPT !.apiSecret = None])
    /\ \A c \in DOMAIN calls :
         (HasStarted(c) /\ ~calls[c].override.some) =>
           calls[c].signed = <<>> /\ MissingSignature(c)

\* a call without override failed on a client built with apiSecret ""
C24_Witness ==
  \E c \in DOMAIN calls :
    /\ config.apiSecret = Some(<<>>)
    /\ ~config.signer.some
    /\ ~calls[c].override.some
    /\ MissingSignature(c)

\* C25: when no override is supplied, the configured signer is invoked
\* exactly once per call and before any HTTP request; if that invocation
\* throws, the call fails with the signer's own error, not wrapped in an
\* APIError, and no HTTP request is issued.
C25_SignerInvokedOnce ==
  \A c \in DOMAIN calls :
    (HasStarted(c) /\ ~calls[c].override.some /\ client.signer.kind # "none") =>
      /\ Len(calls[c].signed) = 1
      /\ Cardinality({ i \in 1..Len(calls[c].events) : calls[c].events[i] = "sign" }) = 1
      /\ Precedes(calls[c].events, "sign", "request")
      /\ (client.signer.kind = "custom" /\ client.signer.fn = "throwing") =>
           /\ calls[c].pc = "done"
           /\ calls[c].requests = <<>>
           /\ calls[c].responses = <<>>
           /\ calls[c].result.kind = "error"
           /\ calls[c].result.error.name = "SignerError"
           /\ calls[c].result.error.message = <<"signer failed">>
           /\ ~calls[c].result.error.status.some
           /\ ~calls[c].result.error.data.some
           /\ ~calls[c].result.error.headers.some

\* a call failed with the error its signer threw
C25_Witness ==
  \E c \in DOMAIN calls :
    /\ ~calls[c].override.some
    /\ config.signer = [some |-> TRUE, v |-> "throwing"]
    /\ calls[c].signed # <<>>
    /\ calls[c].pc = "done"
    /\ calls[c].result.error.name = "SignerError"
    /\ calls[c].requests = <<>>

====
